---------------------------- MODULE Spec2Model ----------------------------
(***************************************************************************)
(* The stitching reservation engine of omnilib/stitch/objects.py:          *)
(* Aggregate.allocate, Aggregate.copyVLANsAndDetectRedo,                   *)
(* Aggregate.deleteReservation and the hop / hop-link state they work on.  *)
(*                                                                         *)
(* One stitched path P1 of three hops, laid over the aggregates in one of  *)
(* two ways:                                                               *)
(*     hop 1 @ A  ->  hop 2 @ B  ->  hop 3 @ C     (a chain of three AMs)  *)
(*     hop 1 @ A  ->  hop 2 @ B  ->  hop 3 @ B     (an AM with two hops)   *)
(* The AM calls (omni.call) are the environment: a reserve call is issued  *)
(* by one step and answered by a later one, a delete call is answered      *)
(* within the step that issues it.                                         *)
(***************************************************************************)
EXTENDS Integers, Sequences, FiniteSets, TLC

\* VLAN tags are 1..MaxVlan (the program's tags are 1..4094).
MaxVlan == 2

VLANS == 1..MaxVlan

\* The URNs Aggregate.find may be asked for, and the hops of the path.
Aggs == {"A", "B", "C"}
HopIds == 1..3

\* The allocate tasks that may run at once on one aggregate.
Tasks == {1, 2}

\* Path.fromDOM: the hops of the path in document order; hop.idx is the
\* position (0-based in the program, 1-based here).
PathHops == <<1, 2, 3>>

\* Path.fromDOM: hop._next_hop is the following hop, or 0 (None) on the last.
next_hop(h) == IF h < Len(PathHops) THEN PathHops[h + 1] ELSE 0

-----------------------------------------------------------------------------
(* Values of the hop link's VLAN fields.  A field holds None, the empty    *)
(* string of HopLink.__init__, or a VLANRange (a set of tags).             *)

NoneV == [k |-> "None", s |-> {}]
EmptyStr == [k |-> "str", s |-> {}]
VR(S) == [k |-> "VLANRange", s |-> S]

\* VLANRange.fromString("any")
AnyRange == VR(VLANS)

\* Python truth of a field: None, "" and an empty VLANRange are false.
Truthy(v) == v.s # {}

\* VLANRange <= VLANRange
IsSubsetOf(a, b) == a.s \subseteq b.s

\* VLANRange & VLANRange, VLANRange - VLANRange
Intersect(a, b) == VR(a.s \cap b.s)
Difference(a, b) == VR(a.s \ b.s)

\* item in range, for an item that is itself a VLANRange: the range is a set
\* of integers and the item is a set, so the item is never one of its elements.
VLANIn(item, range) == FALSE

-----------------------------------------------------------------------------
(* Documents.  A manifest holds, for each hop of the answering AM, the     *)
(* texts of suggestedVLANRange and vlanRangeAvailability.  A request holds *)
(* for each hop of the path the two request texts.                         *)

Missing == [k |-> "missing", s |-> {}]
NullText == [k |-> "null", s |-> {}]
Text(S) == [k |-> "text", s |-> S]

\* The text "any" of a request document.
AnyText == [k |-> "any", s |-> VLANS]

\* VLANRange.fromString: "any" is every tag, a list of runs its tags.
fromString(e) == IF e.k = "any" THEN AnyRange ELSE VR(e.s)

\* str(VLANRange): the list of runs of its tags ("1-2"; "" when empty).
str(v) == Text(v.s)

\* A hop link of a request document: its suggestedVLANRange element, its
\* first vlanRangeAvailability element, and a second vlanRangeAvailability
\* element if it has one.
Link(sug, rng, rngExtra) == [sug |-> sug, rng |-> rng, rngExtra |-> rngExtra]

NoDoc == [present |-> FALSE, hops |-> [h \in {} |-> 0]]
Doc(f) == [present |-> TRUE, hops |-> f]

\* What an AM may put in a manifest for one hop: as suggested text one tag
\* or every tag (say "1-2"), as range text every tag or the suggested
\* text; a suggested tag that is not in the range text; or texts that
\* allocate rejects.
SuggestedTexts == {{v} : v \in VLANS} \cup {VLANS}
RangeTexts(S) == {VLANS, S}
GoodEntries ==
    UNION {{[sug |-> Text(S), rng |-> Text(R)] : R \in RangeTexts(S)} : S \in SuggestedTexts}
    \cup {[sug |-> Text({MaxVlan}), rng |-> Text({1})]}
BadEntries == {[sug |-> NullText, rng |-> Text(VLANS)],
               [sug |-> Text({1}), rng |-> Missing]}
ManifestEntries == GoodEntries \cup BadEntries

-----------------------------------------------------------------------------
VARIABLES
    aggs,                    \* Aggregate.aggs: the URNs it has an entry for
    instance,                \* Aggregate.aggs: the Aggregate object of each URN (0: no entry)
    created,                 \* the number of Aggregate objects constructed so far
    aggregate,               \* Hop.aggregate
    vlan_xlate,              \* HopLink.vlan_xlate
    import_vlans,            \* Hop.import_vlans
    import_vlans_from,       \* Hop.import_vlans_from (0 is None)
    dependsOn,               \* Aggregate._dependsOn
    isDependencyFor,         \* Aggregate.isDependencyFor
    dcn,                     \* Aggregate.dcn
    api_version,             \* Aggregate.api_version
    cycleError,              \* the URNs the builder's CycleError names ({}: none raised)
    originalRSpec,           \* the hop links of the request document (allocate's rspecDom)
    documentBound,           \* whether the name `Document` of HopLink.editChangesIntoDom
                             \* resolves to a document that can create nodes
    vlan_range_request,      \* HopLink.vlan_range_request
    vlan_suggested_request,  \* HopLink.vlan_suggested_request
    vlan_range_manifest,     \* HopLink.vlan_range_manifest
    vlan_suggested_manifest, \* HopLink.vlan_suggested_manifest
    vlans_unavailable,       \* Hop.vlans_unavailable
    inProcess,               \* Aggregate.inProcess
    completed,               \* Aggregate.completed
    manifestDom,             \* Aggregate.manifestDom
    requestDom,              \* Aggregate.requestDom
    pc,                      \* where each aggregate's allocate call stands
    textBound,               \* whether the name `text` of allocate's error branch resolves
    gotManifest,             \* aggregates whose reserve call has returned a manifest
    task,                    \* where each of two concurrent allocate tasks of an aggregate stands
    lastOp                   \* the call the last step made, and the AM calls it issued

topology == <<aggs, instance, created, aggregate, vlan_xlate, import_vlans, import_vlans_from, dependsOn, isDependencyFor,
              dcn, api_version, cycleError, originalRSpec, documentBound>>
hopFields == <<vlan_range_request, vlan_suggested_request, vlan_range_manifest,
               vlan_suggested_manifest, vlans_unavailable>>
aggFields == <<inProcess, completed, manifestDom, requestDom>>
progVars == <<topology, hopFields, aggFields>>
vars == <<progVars, pc, textBound, gotManifest, task, lastOp>>

\* Aggregate.hops
HopsOf(x) == {h \in HopIds : aggregate[h] = x}

\* The manifests the AM of x may answer with.
Manifests(x) == {Doc(f) : f \in [HopsOf(x) -> ManifestEntries]}

-----------------------------------------------------------------------------
(* The dependency builder: adjacent hops of a path on different aggregates.*)

AdjacentPairs == {<<PathHops[i], PathHops[i + 1]>> : i \in 1..(Len(PathHops) - 1)}
CrossPairs(agg) == {p \in AdjacentPairs : agg[p[1]] # agg[p[2]]}

\* B imports from A unless A translates VLANs.
BuildImportFrom(agg, xlate) ==
    [b \in HopIds |->
        IF \E p \in CrossPairs(agg) : p[2] = b /\ ~xlate[p[1]]
        THEN (CHOOSE p \in CrossPairs(agg) : p[2] = b)[1]
        ELSE 0]

BuildDependsOn(agg) ==
    [x \in Aggs |-> {agg[p[1]] : p \in {q \in CrossPairs(agg) : agg[q[2]] = x}}]

BuildIsDependencyFor(agg) ==
    [x \in Aggs |-> {agg[p[2]] : p \in {q \in CrossPairs(agg) : agg[q[1]] = x}}]

\* The transitive closure of a relation between the (three) aggregates.
Closure(rel, x) ==
    LET step(S) == S \cup UNION {rel[y] : y \in S}
    IN  step(step(step(rel[x])))

\* The builder's cycle check: the aggregates that depend on themselves.
\* The variant looks for direct self-dependencies only.
CycleMembersDirectOnly(deps) == {x \in Aggs : x \in deps[x]}

CycleMembers(deps) == {x \in Aggs : x \in Closure(deps, x)}

-----------------------------------------------------------------------------
(* The state after the request document has been parsed (HopLink.fromDOM,  *)
(* Hop.__init__, Aggregate.__init__) and the dependencies built.           *)

\* HopLink.fromDOM: an element's text is parsed, and a link without the
\* element gets an empty VLANRange.
fromDOM(link) ==
    [sug |-> IF link.sug.k = "missing" THEN VR({}) ELSE fromString(link.sug),
     rng |-> IF link.rng.k = "missing" THEN VR({}) ELSE fromString(link.rng)]

\* The links tried for the first hop of the path: "any" twice, "any" with a
\* narrower range, and a link without the two elements.  The other hops
\* say "any".
EntryLinks ==
    {Link(AnyText, AnyText, Missing),
     Link(AnyText, Text({1}), Missing),
     Link(Missing, Missing, Missing)}

\* The (suggested, range) requests parsed from them: "any" twice, "any"
\* with a narrower range, two empty VLANRanges.
EntryRequests == {fromDOM(l) : l \in EntryLinks}

\* The documents tried: a chain of three AMs whose hops translate VLANs (so
\* the AMs depend on each other and no hop imports), its first AM a DCN AM
\* or not; an AM with two hops behind a first hop that may translate; and
\* a path that leaves AM A for AM B and comes back to A, so that each of
\* the two depends on the other; and the two-AM document with the last hop
\* marked import_vlans by its caller (Hop.import_vlans has a setter) while
\* its import_vlans_from was left None.
\* dcn is False after Aggregate.__init__; the caller sets it for a DCN AM.
\* api_version is 2 after Aggregate.__init__; the caller sets it for an AM
\* that speaks version 3 (AM B of the chain).
Documents ==
    {[aggregate |-> <<"A", "B", "C">>, xlate |-> <<TRUE, TRUE, FALSE>>,
      entry |-> Link(AnyText, AnyText, Missing), dcn |-> D, v3 |-> {"B"},
      noSource |-> {}] : D \in {{}, {"A"}}}
    \cup {[aggregate |-> <<"A", "B", "B">>, xlate |-> <<t, FALSE, FALSE>>, entry |-> r,
            dcn |-> {}, v3 |-> {}, noSource |-> {}] :
            t \in BOOLEAN, r \in EntryLinks}
    \cup {[aggregate |-> <<"A", "B", "A">>, xlate |-> <<FALSE, FALSE, FALSE>>,
            entry |-> Link(AnyText, AnyText, Missing), dcn |-> {}, v3 |-> {}, noSource |-> {}]}
    \cup {[aggregate |-> <<"A", "B", "B">>, xlate |-> <<FALSE, FALSE, FALSE>>,
            entry |-> Link(AnyText, AnyText, Missing), dcn |-> {}, v3 |-> {}, noSource |-> {3}]}

Init ==
    /\ \E d \in Documents :
        /\ aggregate = d.aggregate
        /\ aggs = {d.aggregate[h] : h \in HopIds}
        /\ vlan_xlate = d.xlate
        /\ dcn = [x \in Aggs |-> x \in d.dcn]
        /\ api_version = [x \in Aggs |-> IF x \in d.v3 THEN 3 ELSE 2]
        /\ import_vlans_from = BuildImportFrom(d.aggregate, d.xlate)
        /\ import_vlans = [h \in HopIds |->
                              BuildImportFrom(d.aggregate, d.xlate)[h] # 0 \/ h \in d.noSource]
        /\ dependsOn = BuildDependsOn(d.aggregate)
        /\ isDependencyFor = BuildIsDependencyFor(d.aggregate)
        /\ originalRSpec = [h \in HopIds |->
                               IF h = 1 THEN d.entry ELSE Link(AnyText, AnyText, Missing)]
    /\ vlan_suggested_request = [h \in HopIds |-> fromDOM(originalRSpec[h]).sug]
    /\ vlan_range_request = [h \in HopIds |-> fromDOM(originalRSpec[h]).rng]
    \* The name is read only when a link lacks an element.
    /\ documentBound \in IF \E h \in HopIds : Missing \in {originalRSpec[h].sug, originalRSpec[h].rng}
                         THEN BOOLEAN ELSE {FALSE}
    \* The Aggregate objects are numbered in the order Aggregate.find made them.
    /\ instance = [x \in Aggs |->
                      IF x \in aggs
                      THEN Cardinality({h \in HopIds : \A g \in 1..h : aggregate[g] # x}) + 1
                      ELSE 0]
    /\ created = Cardinality(aggs)
    /\ cycleError = {}
    /\ vlan_range_manifest = [h \in HopIds |-> EmptyStr]
    /\ vlan_suggested_manifest = [h \in HopIds |-> NoneV]
    /\ vlans_unavailable = [h \in HopIds |-> VR({})]
    /\ inProcess = [x \in Aggs |-> FALSE]
    /\ completed = [x \in Aggs |-> FALSE]
    /\ manifestDom = [x \in Aggs |-> NoDoc]
    /\ requestDom = [x \in Aggs |-> NoDoc]
    /\ pc = [x \in Aggs |-> "idle"]
    /\ textBound \in BOOLEAN
    /\ gotManifest = {}
    /\ task = [x \in Aggs |-> [t \in Tasks |-> "out"]]
    /\ lastOp = [op |-> "none", agg |-> "A", rpcs |-> <<>>, verbs |-> <<>>, result |-> "done",
                 answer |-> "none", ret |-> 0]

-----------------------------------------------------------------------------
(* Aggregate.dependencies_complete, Aggregate.ready                        *)

\* A variant that does not look at the dependencies.
dependencies_completeAlways(x) == TRUE

dependencies_complete(x) == \A d \in dependsOn[x] : completed[d]

ready(x) == ~completed[x] /\ ~inProcess[x] /\ dependencies_complete(x)

-----------------------------------------------------------------------------
(* Aggregate.copyVLANsAndDetectRedo.  The hops of the aggregate are a set, *)
(* so they are visited in some order; acc carries the request fields and   *)
(* the two flags from hop to hop, and `raised` once a StitchingError ends  *)
(* the call (the hops visited before it keep their new request fields).    *)

CopyStart(x) ==
    [sug |-> vlan_suggested_request,
     rng |-> vlan_range_request,
     mustDelete |-> FALSE,
     alreadyDone |-> manifestDom[x].present,
     raised |-> FALSE]

\* The suggested VLAN to ask for: the upstream hop's manifest value if it
\* has one, else the hop's own request (or "any").
NewSuggested(acc, h) ==
    LET u == import_vlans_from[h]
        own == IF Truthy(acc.sug[h]) THEN acc.sug[h] ELSE AnyRange
    IN  IF Truthy(vlan_suggested_manifest[u]) THEN vlan_suggested_manifest[u] ELSE own

\* A variant that takes the upstream manifest range alone.
NewAvailUpstreamOnly(acc, h) ==
    LET u == import_vlans_from[h]
        int1 == IF Truthy(vlan_range_manifest[u]) THEN vlan_range_manifest[u] ELSE AnyRange
    IN  Difference(int1, vlans_unavailable[h])

\* The range to ask for: upstream manifest range & own request range, less
\* the tags known not to work.
NewAvail(acc, h) ==
    LET u == import_vlans_from[h]
        int1 == IF Truthy(vlan_range_manifest[u]) THEN vlan_range_manifest[u] ELSE AnyRange
        int2 == IF Truthy(acc.rng[h]) THEN acc.rng[h] ELSE AnyRange
    IN  Difference(Intersect(int1, int2), vlans_unavailable[h])

\* Variants of the suggested-request half, used to test the properties below
\* that rest on it: one that never asks for a redo, one that leaves the
\* request of a fresh hop as it was.
CopySuggestedNeverRedo(acc, h, hadPreviousManifest, new_suggested) ==
    IF Truthy(vlan_suggested_manifest[h])
    THEN IF ~hadPreviousManifest
         THEN [acc EXCEPT !.raised = TRUE]
         ELSE IF acc.sug[h] # new_suggested
              THEN [acc EXCEPT !.sug[h] = new_suggested]
              ELSE acc
    ELSE IF hadPreviousManifest
         THEN [acc EXCEPT !.alreadyDone = FALSE, !.raised = TRUE]
         ELSE [acc EXCEPT !.alreadyDone = FALSE, !.sug[h] = new_suggested]

CopySuggestedKeepsRequest(acc, h, hadPreviousManifest, new_suggested) ==
    IF Truthy(vlan_suggested_manifest[h])
    THEN IF ~hadPreviousManifest
         THEN [acc EXCEPT !.raised = TRUE]
         ELSE IF acc.sug[h] # new_suggested
              THEN IF vlan_suggested_manifest[h] = new_suggested
                   THEN [acc EXCEPT !.sug[h] = new_suggested]
                   ELSE [acc EXCEPT !.sug[h] = new_suggested,
                                    !.mustDelete = TRUE,
                                    !.alreadyDone = FALSE]
              ELSE acc
    ELSE IF hadPreviousManifest
         THEN [acc EXCEPT !.alreadyDone = FALSE, !.raised = TRUE]
         ELSE [acc EXCEPT !.alreadyDone = FALSE]

\* The suggested-request half of one importing hop (objects.py 620-646).
CopySuggested(acc, h, hadPreviousManifest, new_suggested) ==
    IF Truthy(vlan_suggested_manifest[h])
    THEN IF ~hadPreviousManifest
         THEN [acc EXCEPT !.raised = TRUE]
         ELSE IF acc.sug[h] # new_suggested
              THEN IF vlan_suggested_manifest[h] = new_suggested
                   THEN [acc EXCEPT !.sug[h] = new_suggested]
                   ELSE [acc EXCEPT !.sug[h] = new_suggested,
                                    !.mustDelete = TRUE,
                                    !.alreadyDone = FALSE]
              ELSE acc
    ELSE IF hadPreviousManifest
         THEN [acc EXCEPT !.alreadyDone = FALSE, !.raised = TRUE]
         ELSE [acc EXCEPT !.alreadyDone = FALSE, !.sug[h] = new_suggested]

\* A variant of the range-request half that keeps the old reservation
\* whenever only the range has changed.
CopyRangeNeverRedo(acc, h, hadPreviousManifest, new_avail) ==
    IF Truthy(vlan_range_manifest[h])
    THEN IF acc.rng[h] # new_avail
         THEN [acc EXCEPT !.rng[h] = new_avail]
         ELSE acc
    ELSE IF hadPreviousManifest
         THEN [acc EXCEPT !.raised = TRUE]
         ELSE [acc EXCEPT !.rng[h] = new_avail]

\* The range-request half of one importing hop (objects.py 648-678).
CopyRange(acc, h, hadPreviousManifest, new_avail) ==
    IF Truthy(vlan_range_manifest[h])
    THEN IF acc.rng[h] # new_avail
         THEN IF Truthy(vlan_suggested_manifest[h])
                 /\ ~VLANIn(vlan_suggested_manifest[h], new_avail)
              THEN [acc EXCEPT !.rng[h] = new_avail,
                               !.mustDelete = TRUE,
                               !.alreadyDone = FALSE]
              ELSE [acc EXCEPT !.rng[h] = new_avail]
         ELSE acc
    ELSE IF hadPreviousManifest
         THEN [acc EXCEPT !.raised = TRUE]
         ELSE [acc EXCEPT !.rng[h] = new_avail]

\* A variant of the loop body that takes the neighbouring hop's manifest VLAN
\* for a hop that does not import.
CopyHopImportsAlways(acc, h, hadPreviousManifest) ==
    IF ~import_vlans[h]
    THEN LET a1 == IF ~Truthy(vlan_suggested_manifest[h])
                   THEN [acc EXCEPT !.alreadyDone = FALSE]
                   ELSE acc
         IN  IF h > 1 /\ Truthy(vlan_suggested_manifest[h - 1])
             THEN [a1 EXCEPT !.sug[h] = vlan_suggested_manifest[h - 1]]
             ELSE a1
    ELSE IF import_vlans_from[h] = 0
    THEN acc
    ELSE LET new_suggested == NewSuggested(acc, h)
             new_avail == NewAvail(acc, h)
         IN  IF IsSubsetOf(new_suggested, vlans_unavailable[h])
             THEN [acc EXCEPT !.raised = TRUE]
             ELSE IF new_avail.s = {}
             THEN [acc EXCEPT !.raised = TRUE]
             ELSE IF ~IsSubsetOf(new_suggested, new_avail)
             THEN [acc EXCEPT !.raised = TRUE]
             ELSE LET a1 == CopySuggested(acc, h, hadPreviousManifest, new_suggested)
                  IN  IF a1.raised THEN a1
                      ELSE CopyRange(a1, h, hadPreviousManifest, new_avail)

\* A variant of the loop body without the three feasibility tests.
CopyHopUnchecked(acc, h, hadPreviousManifest) ==
    IF ~import_vlans[h]
    THEN IF ~Truthy(vlan_suggested_manifest[h])
         THEN [acc EXCEPT !.alreadyDone = FALSE]
         ELSE acc
    ELSE IF import_vlans_from[h] = 0
    THEN acc
    ELSE LET a1 == CopySuggested(acc, h, hadPreviousManifest, NewSuggested(acc, h))
         IN  IF a1.raised THEN a1
             ELSE CopyRange(a1, h, hadPreviousManifest, NewAvail(acc, h))

\* One pass of the loop body for hop h.
CopyHop(acc, h, hadPreviousManifest) ==
    IF ~import_vlans[h]
    THEN IF ~Truthy(vlan_suggested_manifest[h])
         THEN [acc EXCEPT !.alreadyDone = FALSE]
         ELSE acc
    ELSE IF import_vlans_from[h] = 0
    THEN acc
    ELSE LET new_suggested == NewSuggested(acc, h)
             new_avail == NewAvail(acc, h)
         IN  IF IsSubsetOf(new_suggested, vlans_unavailable[h])
             THEN [acc EXCEPT !.raised = TRUE]
             ELSE IF new_avail.s = {}
             THEN [acc EXCEPT !.raised = TRUE]
             ELSE IF ~IsSubsetOf(new_suggested, new_avail)
             THEN [acc EXCEPT !.raised = TRUE]
             ELSE LET a1 == CopySuggested(acc, h, hadPreviousManifest, new_suggested)
                  IN  IF a1.raised THEN a1
                      ELSE CopyRange(a1, h, hadPreviousManifest, new_avail)

RECURSIVE CopyLoop(_, _, _)
CopyLoop(acc, order, hadPreviousManifest) ==
    IF order = <<>> \/ acc.raised
    THEN acc
    ELSE CopyLoop(CopyHop(acc, Head(order), hadPreviousManifest), Tail(order),
                  hadPreviousManifest)

\* The orders in which a set of hops may be visited.
Orders(S) == {o \in [1..Cardinality(S) -> S] : \A i, j \in DOMAIN o : i # j => o[i] # o[j]}

copyVLANsAndDetectRedo(x, order) == CopyLoop(CopyStart(x), order, manifestDom[x].present)

-----------------------------------------------------------------------------
(* Aggregate.deleteReservation: the local state it clears.                 *)

\* completed is reset for the aggregate and for each aggregate of its
\* isDependencyFor.
DeleteCompleted(x) ==
    [y \in Aggs |-> IF y = x \/ y \in isDependencyFor[x] THEN FALSE ELSE completed[y]]

\* A variant that clears the field on every hop of the path.
ClearManifestEverywhere(field, x) == [h \in HopIds |-> NoneV]

\* The *_manifest fields of the aggregate's hops become None.
ClearManifest(field, x) == [h \in HopIds |-> IF h \in HopsOf(x) THEN NoneV ELSE field[h]]

\* The calls are made on the aggregates of the run, until one raises: the
\* exception leaves the engine and ends the run.  No call is made when the
\* dependencies form a cycle: the run fails before scheduling starts.
Running(x) == x \in aggs /\ lastOp.result # "raised" /\ CycleMembers(dependsOn) = {}

\* What the last step did: the method called, on which aggregate, the AM
\* calls it issued in order, and how it ended: "early" (allocate returned at
\* one of its guards), "done" (returned), "raised", or "calling" (allocate
\* waits for the answer to its reserve call); ret is the Aggregate object a
\* call of Aggregate.find returned.
\* The omni command of the reserve call (doReservation) and of the delete
\* call (deleteReservation, which appends 'sliver' to its opName).
reserveVerb(x) == IF api_version[x] > 2 THEN "allocate" ELSE "createsliver"

deleteVerb(x) == (IF api_version[x] > 2 THEN "delete" ELSE "deletesliver") \o "sliver"

\* verbs holds the omni command of each AM call of rpcs.
Op(name, x, rpcs, result) ==
    [op |-> name, agg |-> x, rpcs |-> rpcs,
     verbs |-> [i \in DOMAIN rpcs |-> IF rpcs[i] = "reserve" THEN reserveVerb(x) ELSE deleteVerb(x)],
     result |-> result, answer |-> "none", ret |-> 0]

\* The codes of the error struct an AM may answer with (AMAPIError
\* returnStruct); allocate does not read the code.
ErrorCodes == {"BUSY", "VLAN_UNAVAILABLE", "ERROR"}

\* The return of the reserve call of x: what omni.call gave ("manifest",
\* "unparsable", "exception" or an error code) and how allocate ended.
Reply(x, answer, result) ==
    [op |-> "reply", agg |-> x, rpcs |-> <<>>, verbs |-> <<>>, result |-> result,
     answer |-> answer, ret |-> 0]

\* A variant that makes the delete call first and clears the local state
\* only when the call has succeeded.
deleteReservationCallsFirst(x) ==
    /\ Running(x)
    /\ pc[x] = "idle"
    /\ \E ok \in BOOLEAN :
        /\ completed' = IF ok THEN DeleteCompleted(x) ELSE completed
        /\ manifestDom' = IF ok THEN [manifestDom EXCEPT ![x] = NoDoc] ELSE manifestDom
        /\ vlan_suggested_manifest' =
              IF ok THEN ClearManifest(vlan_suggested_manifest, x) ELSE vlan_suggested_manifest
        /\ vlan_range_manifest' =
              IF ok THEN ClearManifest(vlan_range_manifest, x) ELSE vlan_range_manifest
        /\ lastOp' = Op("deleteReservation", x, <<"delete">>, IF ok THEN "done" ELSE "raised")
    /\ UNCHANGED <<topology, vlan_range_request, vlan_suggested_request, vlans_unavailable,
                   inProcess, requestDom, pc, textBound, task, gotManifest>>

\* deleteReservation called on its own (by the scheduler).  The delete call
\* to the AM comes last: when it fails the method raises, the local state
\* already cleared.
deleteReservation(x) ==
    /\ Running(x)
    /\ pc[x] = "idle"
    /\ completed' = DeleteCompleted(x)
    /\ manifestDom' = [manifestDom EXCEPT ![x] = NoDoc]
    /\ vlan_suggested_manifest' = ClearManifest(vlan_suggested_manifest, x)
    /\ vlan_range_manifest' = ClearManifest(vlan_range_manifest, x)
    /\ \E ok \in BOOLEAN : lastOp' = Op("deleteReservation", x, <<"delete">>, IF ok THEN "done" ELSE "raised")
    /\ UNCHANGED <<topology, vlan_range_request, vlan_suggested_request, vlans_unavailable,
                   inProcess, requestDom, pc, textBound, task, gotManifest>>

-----------------------------------------------------------------------------
(* Aggregate.allocate, up to the reserve call.                             *)

\* Variants of the guards, used to test the properties below that rest on
\* them: one without the dependency guard, one without the completed guard,
\* one whose completed guard is inverted.
AllocateReturnsEarlyUnlessCompleted(x) ==
    inProcess[x] \/ ~dependencies_complete(x) \/ ~completed[x]

AllocateReturnsEarlyNoDependencyGuard(x) == inProcess[x] \/ completed[x]

\* A variant without the inProcess guard.
AllocateReturnsEarlyNoInProcessGuard(x) == ~dependencies_complete(x) \/ completed[x]

AllocateReturnsEarlyNoCompletedGuard(x) == inProcess[x] \/ ~dependencies_complete(x)

\* The three guards at the top of allocate.
AllocateReturnsEarly(x) == inProcess[x] \/ ~dependencies_complete(x) \/ completed[x]

\* HopLink.editChangesIntoDom on the clone of a link: an element the link
\* has gets the request field's text.  An element it lacks is to be created
\* through the name `Document`, which objects.py does not import: the call
\* raises (NameError, or TypeError on the minidom class), or, where the
\* name is a document, the new element goes into the link.  Either way the
\* new element is named vlanRangeAvailability, also the one made for the
\* suggested VLAN.
editChangesIntoDom(link, sug, rng) ==
    LET needsDocument == link.rng.k = "missing" \/ link.sug.k = "missing"
        hasSuggested == link.sug.k # "missing"
    IN  [raised |-> needsDocument /\ ~documentBound,
         link |-> Link(IF hasSuggested THEN str(sug) ELSE Missing,
                       str(rng),
                       IF hasSuggested THEN link.rngExtra ELSE str(sug))]

\* Aggregate.getEditedRSpecDom: a clone of the original document in which
\* every hop of the aggregate's paths has edited its link; it raises when
\* an edit does.  An aggregate with no hop on the path edits nothing.
getEditedRSpecDom(x, sug, rng) ==
    LET onPath == HopsOf(x) # {}
        e == [h \in HopIds |->
                 IF onPath THEN editChangesIntoDom(originalRSpec[h], sug[h], rng[h])
                 ELSE [raised |-> FALSE, link |-> originalRSpec[h]]]
    IN  [raised |-> \E h \in HopIds : e[h].raised,
         dom |-> Doc([h \in HopIds |-> e[h].link])]

\* allocate returns at one of its guards.  The call may also come while an
\* earlier call on the same aggregate waits for the AM: inProcess is set
\* then, and the first guard returns.
AllocateNoop(x) ==
    /\ Running(x)
    /\ AllocateReturnsEarly(x)
    /\ lastOp' = Op("allocate", x, <<>>, "early")
    /\ UNCHANGED <<progVars, pc, textBound, task, gotManifest>>

\* copyVLANsAndDetectRedo raises: allocate ends there.
AllocateNegotiationError(x) ==
    /\ Running(x)
    /\ pc[x] = "idle"
    /\ ~AllocateReturnsEarly(x)
    /\ \E order \in Orders(HopsOf(x)) :
        LET r == copyVLANsAndDetectRedo(x, order) IN
        /\ r.raised
        /\ vlan_suggested_request' = r.sug
        /\ vlan_range_request' = r.rng
    /\ lastOp' = Op("allocate", x, <<>>, "raised")
    /\ UNCHANGED <<topology, vlan_range_manifest, vlan_suggested_manifest, vlans_unavailable,
                   aggFields, pc, textBound, task, gotManifest>>

\* mustDelete, and the delete call fails: deleteReservation raises.
AllocateDeleteFails(x) ==
    /\ Running(x)
    /\ pc[x] = "idle"
    /\ ~AllocateReturnsEarly(x)
    /\ \E order \in Orders(HopsOf(x)) :
        LET r == copyVLANsAndDetectRedo(x, order) IN
        /\ ~r.raised /\ r.mustDelete
        /\ vlan_suggested_request' = r.sug
        /\ vlan_range_request' = r.rng
    /\ completed' = DeleteCompleted(x)
    /\ manifestDom' = [manifestDom EXCEPT ![x] = NoDoc]
    /\ vlan_suggested_manifest' = ClearManifest(vlan_suggested_manifest, x)
    /\ vlan_range_manifest' = ClearManifest(vlan_range_manifest, x)
    /\ lastOp' = Op("allocate", x, <<"delete">>, "raised")
    /\ UNCHANGED <<topology, vlans_unavailable, inProcess, requestDom, pc, textBound, task,
                   gotManifest>>

\* mustDelete: the old reservation is deleted, then the new one requested.
\* When the request document cannot be built allocate raises there, the AM
\* already marked busy.
AllocateRedo(x) ==
    /\ Running(x)
    /\ pc[x] = "idle"
    /\ ~AllocateReturnsEarly(x)
    /\ \E order \in Orders(HopsOf(x)) :
        LET r == copyVLANsAndDetectRedo(x, order)
            e == getEditedRSpecDom(x, r.sug, r.rng)
        IN
        /\ ~r.raised /\ r.mustDelete
        /\ vlan_suggested_request' = r.sug
        /\ vlan_range_request' = r.rng
        /\ requestDom' = IF e.raised THEN requestDom ELSE [requestDom EXCEPT ![x] = e.dom]
        /\ pc' = IF e.raised THEN pc ELSE [pc EXCEPT ![x] = "reserving"]
        /\ lastOp' = IF e.raised THEN Op("allocate", x, <<"delete">>, "raised")
                      ELSE Op("allocate", x, <<"delete", "reserve">>, "calling")
    /\ completed' = DeleteCompleted(x)
    /\ manifestDom' = [manifestDom EXCEPT ![x] = NoDoc]
    /\ vlan_suggested_manifest' = ClearManifest(vlan_suggested_manifest, x)
    /\ vlan_range_manifest' = ClearManifest(vlan_range_manifest, x)
    /\ inProcess' = [inProcess EXCEPT ![x] = TRUE]
    /\ UNCHANGED <<topology, vlans_unavailable, textBound, task, gotManifest>>

\* A variant that marks the AM busy before it looks at alreadyDone.
AllocateAlreadyDoneMarkedBusy(x) ==
    /\ Running(x)
    /\ pc[x] = "idle"
    /\ ~AllocateReturnsEarly(x)
    /\ \E order \in Orders(HopsOf(x)) :
        LET r == copyVLANsAndDetectRedo(x, order) IN
        /\ ~r.raised /\ ~r.mustDelete /\ r.alreadyDone
        /\ vlan_suggested_request' = r.sug
        /\ vlan_range_request' = r.rng
    /\ completed' = [completed EXCEPT ![x] = TRUE]
    /\ inProcess' = [inProcess EXCEPT ![x] = TRUE]
    /\ lastOp' = Op("allocate", x, <<>>, "done")
    /\ UNCHANGED <<topology, vlan_range_manifest, vlan_suggested_manifest, vlans_unavailable,
                   manifestDom, requestDom, pc, textBound, task, gotManifest>>

\* alreadyDone: the previous manifest still stands.
AllocateAlreadyDone(x) ==
    /\ Running(x)
    /\ pc[x] = "idle"
    /\ ~AllocateReturnsEarly(x)
    /\ \E order \in Orders(HopsOf(x)) :
        LET r == copyVLANsAndDetectRedo(x, order) IN
        /\ ~r.raised /\ ~r.mustDelete /\ r.alreadyDone
        /\ vlan_suggested_request' = r.sug
        /\ vlan_range_request' = r.rng
    /\ completed' = [completed EXCEPT ![x] = TRUE]
    /\ lastOp' = Op("allocate", x, <<>>, "done")
    /\ UNCHANGED <<topology, vlan_range_manifest, vlan_suggested_manifest, vlans_unavailable,
                   inProcess, manifestDom, requestDom, pc, textBound, task, gotManifest>>

\* The plain case: mark the AM busy, build the request, call the AM.  When
\* the request document cannot be built allocate raises there, the AM
\* already marked busy.
AllocateReserve(x) ==
    /\ Running(x)
    /\ pc[x] = "idle"
    /\ ~AllocateReturnsEarly(x)
    /\ \E order \in Orders(HopsOf(x)) :
        LET r == copyVLANsAndDetectRedo(x, order)
            e == getEditedRSpecDom(x, r.sug, r.rng)
        IN
        /\ ~r.raised /\ ~r.mustDelete /\ ~r.alreadyDone
        /\ vlan_suggested_request' = r.sug
        /\ vlan_range_request' = r.rng
        /\ requestDom' = IF e.raised THEN requestDom ELSE [requestDom EXCEPT ![x] = e.dom]
        /\ pc' = IF e.raised THEN pc ELSE [pc EXCEPT ![x] = "reserving"]
        /\ lastOp' = IF e.raised THEN Op("allocate", x, <<>>, "raised")
                      ELSE Op("allocate", x, <<"reserve">>, "calling")
    /\ completed' = [completed EXCEPT ![x] = FALSE]
    /\ inProcess' = [inProcess EXCEPT ![x] = TRUE]
    /\ UNCHANGED <<topology, vlan_range_manifest, vlan_suggested_manifest, vlans_unavailable,
                   manifestDom, textBound, task, gotManifest>>

allocate(x) ==
    \/ AllocateNoop(x)
    \/ AllocateNegotiationError(x)
    \/ AllocateDeleteFails(x)
    \/ AllocateRedo(x)
    \/ AllocateAlreadyDone(x)
    \/ AllocateReserve(x)

-----------------------------------------------------------------------------
(* Aggregate.allocate, from the return of doReservation on.                *)

\* The checks allocate makes on one hop's manifest texts: a suggested text
\* that is present and none of 'null', 'None', 'any', and a range text that
\* is present.  Nothing else is checked.
ManifestHopAccepted(e) == e.sug.k = "text" /\ e.rng.k = "text"

\* The loop over the hops that saves the manifest's VLANs on the hop links;
\* a hop that fails the checks raises and ends the loop.
RecordStart == [sug |-> vlan_suggested_manifest, rng |-> vlan_range_manifest, raised |-> FALSE]

RecordHop(acc, h, doc) ==
    IF h \notin DOMAIN doc.hops
    THEN [acc EXCEPT !.raised = TRUE]
    ELSE IF ~ManifestHopAccepted(doc.hops[h])
    THEN [acc EXCEPT !.raised = TRUE]
    ELSE [acc EXCEPT !.sug[h] = VR(doc.hops[h].sug.s), !.rng[h] = VR(doc.hops[h].rng.s)]

RECURSIVE RecordLoop(_, _, _)
RecordLoop(acc, order, doc) ==
    IF order = <<>> \/ acc.raised
    THEN acc
    ELSE RecordLoop(RecordHop(acc, Head(order), doc), Tail(order), doc)

\* omni.call raises something other than an AMAPIError: doReservation
\* raises a StitchingError.
ReserveRaises(x) ==
    /\ Running(x)
    /\ pc[x] = "reserving"
    /\ pc' = [pc EXCEPT ![x] = "idle"]
    /\ lastOp' = Reply(x, "exception", "raised")
    /\ UNCHANGED <<progVars, textBound, task, gotManifest>>

\* The AM answers with an error struct (or an empty result), and the error
\* branch ends in a NameError: the name `text` is not bound in allocate.
ReserveErrorRaises(x) ==
    /\ Running(x)
    /\ pc[x] = "reserving"
    /\ ~textBound
    /\ pc' = [pc EXCEPT ![x] = "idle"]
    /\ \E code \in ErrorCodes : lastOp' = Reply(x, code, "raised")
    /\ UNCHANGED <<progVars, textBound, task, gotManifest>>

\* The same answer where `text` is bound by one of the wildcard imports:
\* the error is logged and allocate goes on to mark the AM complete.
ReserveErrorFallsThrough(x) ==
    /\ Running(x)
    /\ pc[x] = "reserving"
    /\ textBound
    /\ inProcess' = [inProcess EXCEPT ![x] = FALSE]
    /\ completed' = [completed EXCEPT ![x] = TRUE]
    /\ pc' = [pc EXCEPT ![x] = "idle"]
    /\ \E code \in ErrorCodes : lastOp' = Reply(x, code, "done")
    /\ UNCHANGED <<topology, hopFields, manifestDom, requestDom, textBound, task, gotManifest>>

\* The AM answers with a manifest; every hop passes the checks.
ReserveSucceeds(x) ==
    /\ Running(x)
    /\ pc[x] = "reserving"
    /\ \E m \in Manifests(x), order \in Orders(HopsOf(x)) :
        LET r == RecordLoop(RecordStart, order, m) IN
        /\ ~r.raised
        /\ manifestDom' = [manifestDom EXCEPT ![x] = m]
        /\ vlan_suggested_manifest' = r.sug
        /\ vlan_range_manifest' = r.rng
    /\ inProcess' = [inProcess EXCEPT ![x] = FALSE]
    /\ completed' = [completed EXCEPT ![x] = TRUE]
    /\ gotManifest' = gotManifest \cup {x}
    /\ pc' = [pc EXCEPT ![x] = "idle"]
    /\ lastOp' = Reply(x, "manifest", "done")
    /\ UNCHANGED <<topology, vlan_range_request, vlan_suggested_request, vlans_unavailable,
                   requestDom, textBound, task>>

\* The AM answers with a manifest; some hop fails the checks and allocate
\* raises, the hops visited before it already saved.
ReserveManifestRejected(x) ==
    /\ Running(x)
    /\ pc[x] = "reserving"
    /\ \E m \in Manifests(x), order \in Orders(HopsOf(x)) :
        LET r == RecordLoop(RecordStart, order, m) IN
        /\ r.raised
        /\ manifestDom' = [manifestDom EXCEPT ![x] = m]
        /\ vlan_suggested_manifest' = r.sug
        /\ vlan_range_manifest' = r.rng
    /\ gotManifest' = gotManifest \cup {x}
    /\ pc' = [pc EXCEPT ![x] = "idle"]
    /\ lastOp' = Reply(x, "manifest", "raised")
    /\ UNCHANGED <<topology, vlan_range_request, vlan_suggested_request, vlans_unavailable,
                   inProcess, completed, requestDom, textBound, task>>

\* The AM's answer does not parse as XML: manifestDom keeps its old value,
\* and the hops are read from that.
ReserveUnparsable(x) ==
    /\ Running(x)
    /\ pc[x] = "reserving"
    /\ \E order \in Orders(HopsOf(x)) :
        LET r == IF manifestDom[x].present
                 THEN RecordLoop(RecordStart, order, manifestDom[x])
                 ELSE [RecordStart EXCEPT !.raised = TRUE]
        IN
        /\ vlan_suggested_manifest' = r.sug
        /\ vlan_range_manifest' = r.rng
        /\ inProcess' = [inProcess EXCEPT ![x] = IF r.raised THEN @ ELSE FALSE]
        /\ completed' = [completed EXCEPT ![x] = IF r.raised THEN @ ELSE TRUE]
        /\ lastOp' = Reply(x, "unparsable", IF r.raised THEN "raised" ELSE "done")
    /\ pc' = [pc EXCEPT ![x] = "idle"]
    /\ UNCHANGED <<topology, vlan_range_request, vlan_suggested_request, vlans_unavailable,
                   manifestDom, requestDom, textBound, task, gotManifest>>

reserveReturns(x) ==
    \/ ReserveRaises(x)
    \/ ReserveErrorRaises(x)
    \/ ReserveErrorFallsThrough(x)
    \/ ReserveSucceeds(x)
    \/ ReserveManifestRejected(x)
    \/ ReserveUnparsable(x)

-----------------------------------------------------------------------------
\* The builder's cycle check, made once the dependencies are built: the run
\* fails with a CycleError that names the aggregates on a cycle.
CheckCycle ==
    /\ lastOp.op = "none"
    /\ CycleMembers(dependsOn) # {}
    /\ cycleError' = CycleMembers(dependsOn)
    /\ lastOp' = Op("run", CHOOSE x \in CycleMembers(dependsOn) : TRUE, <<>>, "raised")
    /\ UNCHANGED <<aggs, instance, created, aggregate, vlan_xlate, import_vlans,
                   import_vlans_from, dependsOn, isDependencyFor, dcn, api_version, originalRSpec, documentBound, hopFields, aggFields, pc, textBound, task,
                   gotManifest>>

Calls == \E x \in Aggs : allocate(x) \/ reserveReturns(x) \/ deleteReservation(x)

Next == Calls \/ CheckCycle

Spec == Init /\ [][Next]_vars

-----------------------------------------------------------------------------
(* Runs that go on after a failure.  The Aggregate objects live in the     *)
(* class-wide registry Aggregate.aggs, so a later scheduling pass in the   *)
(* same process finds them as the failed allocate left them.  Tried on the *)
(* document with two AMs, every hop asking for "any".                     *)

\* The state after parsing the document with two AMs.
InitTwoAMs ==
    /\ Init
    /\ aggregate = <<"A", "B", "B">>
    /\ ~vlan_xlate[1]
    /\ vlan_suggested_request[1] = AnyRange /\ vlan_range_request[1] = AnyRange
    /\ \A h \in HopIds : import_vlans[h] => import_vlans_from[h] # 0

\* The scheduler starts another pass after a call has raised.
NextPass ==
    /\ lastOp.result = "raised"
    /\ lastOp' = Op("pass", lastOp.agg, <<>>, "done")
    /\ UNCHANGED <<progVars, pc, textBound, task, gotManifest>>

NextPasses == Calls \/ NextPass

SpecPasses == InitTwoAMs /\ [][NextPasses]_vars

-----------------------------------------------------------------------------
(* Allocate tasks running at once.  allocate takes no lock: a task tests   *)
(* the guards, then negotiates (and may call delete), and only then sets   *)
(* inProcess and calls the AM, so another task of the same aggregate may   *)
(* run between the test and the assignment.  Each task is in allocate      *)
(* before the guards ("out"), past them ("entered"), or waiting for the    *)
(* AM's answer ("reserving").                                              *)

SetTask(x, t, where) == [task EXCEPT ![x][t] = where]

\* The task passes the three guards.
TaskEnters(x, t) ==
    /\ x \in aggs
    /\ task[x][t] = "out"
    /\ ~AllocateReturnsEarly(x)
    /\ task' = SetTask(x, t, "entered")
    /\ UNCHANGED <<progVars, pc, textBound, gotManifest, lastOp>>

\* The rest of allocate up to the reserve call: negotiation, the delete of
\* an old reservation, the alreadyDone return, or inProcess and the call.
TaskReserves(x, t) ==
    /\ x \in aggs
    /\ task[x][t] = "entered"
    /\ \E order \in Orders(HopsOf(x)), ok \in BOOLEAN :
        LET r == copyVLANsAndDetectRedo(x, order)
            e == getEditedRSpecDom(x, r.sug, r.rng)
            deleted == ~r.raised /\ r.mustDelete
            builds == ~r.raised /\ (IF r.mustDelete THEN ok ELSE ~r.alreadyDone)
            calls == builds /\ ~e.raised
        IN
        /\ vlan_suggested_request' = r.sug
        /\ vlan_range_request' = r.rng
        /\ manifestDom' = IF deleted THEN [manifestDom EXCEPT ![x] = NoDoc] ELSE manifestDom
        /\ vlan_suggested_manifest' =
              IF deleted THEN ClearManifest(vlan_suggested_manifest, x)
              ELSE vlan_suggested_manifest
        /\ vlan_range_manifest' =
              IF deleted THEN ClearManifest(vlan_range_manifest, x) ELSE vlan_range_manifest
        /\ completed' =
              IF r.raised THEN completed
              ELSE IF r.mustDelete THEN DeleteCompleted(x)
              ELSE [completed EXCEPT ![x] = r.alreadyDone]
        /\ inProcess' = IF builds THEN [inProcess EXCEPT ![x] = TRUE] ELSE inProcess
        /\ requestDom' = IF calls THEN [requestDom EXCEPT ![x] = e.dom] ELSE requestDom
        /\ task' = SetTask(x, t, IF calls THEN "reserving" ELSE "out")
    /\ UNCHANGED <<topology, vlans_unavailable, pc, textBound, gotManifest, lastOp>>

\* The AM's answer to the task's reserve: a manifest, saved and checked hop
\* by hop, or a failure of the call.
TaskReturns(x, t) ==
    /\ x \in aggs
    /\ task[x][t] = "reserving"
    /\ \/ \E m \in Manifests(x), order \in Orders(HopsOf(x)) :
            LET r == RecordLoop(RecordStart, order, m) IN
            /\ manifestDom' = [manifestDom EXCEPT ![x] = m]
            /\ vlan_suggested_manifest' = r.sug
            /\ vlan_range_manifest' = r.rng
            /\ inProcess' = [inProcess EXCEPT ![x] = IF r.raised THEN @ ELSE FALSE]
            /\ completed' = [completed EXCEPT ![x] = IF r.raised THEN @ ELSE TRUE]
            /\ gotManifest' = gotManifest \cup {x}
       \/ UNCHANGED <<manifestDom, vlan_suggested_manifest, vlan_range_manifest, inProcess,
                      completed, gotManifest>>
    /\ task' = SetTask(x, t, "out")
    /\ UNCHANGED <<topology, vlan_range_request, vlan_suggested_request, vlans_unavailable,
                   requestDom, pc, textBound, lastOp>>

NextTasks == \E x \in Aggs, t \in Tasks : TaskEnters(x, t) \/ TaskReserves(x, t) \/ TaskReturns(x, t)

\* The tasks stop at the reserve call's failure and never read the name
\* `text`, so one of its two bindings is enough.  Tried on the document
\* with two AMs, with and without the hop that imports from no hop.
InitTasks ==
    /\ Init
    /\ aggregate = <<"A", "B", "B">>
    /\ ~vlan_xlate[1]
    /\ vlan_suggested_request[1] = AnyRange /\ vlan_range_request[1] = AnyRange
    /\ ~textBound

SpecTasks == InitTasks /\ [][NextTasks]_vars

-----------------------------------------------------------------------------
(* Aggregate.find, called at any point of a run on the URNs a document     *)
(* names (Link.fromDOM): an aggregate made by it has no hop and no         *)
(* dependency, and may be allocated like any other.                        *)

\* The test `urn in cls.aggs`, and a variant that never finds the entry.
RegisteredNever(urn) == FALSE

Registered(urn) == urn \in aggs

\* The object Aggregate.__init__ makes is put in place of whatever the
\* fields of the URN held.
Construct(field, urn, value) == [field EXCEPT ![urn] = value]

find(urn) ==
    /\ lastOp.result # "raised"
    /\ LET new == ~Registered(urn) IN
        /\ aggs' = aggs \cup {urn}
        /\ created' = IF new THEN created + 1 ELSE created
        /\ instance' = IF new THEN Construct(instance, urn, created + 1) ELSE instance
        /\ inProcess' = IF new THEN Construct(inProcess, urn, FALSE) ELSE inProcess
        /\ completed' = IF new THEN Construct(completed, urn, FALSE) ELSE completed
        /\ requestDom' = IF new THEN Construct(requestDom, urn, NoDoc) ELSE requestDom
        /\ manifestDom' = IF new THEN Construct(manifestDom, urn, NoDoc) ELSE manifestDom
        /\ dependsOn' = IF new THEN Construct(dependsOn, urn, {}) ELSE dependsOn
        /\ isDependencyFor' = IF new THEN Construct(isDependencyFor, urn, {}) ELSE isDependencyFor
        /\ dcn' = IF new THEN Construct(dcn, urn, FALSE) ELSE dcn
        /\ api_version' = IF new THEN Construct(api_version, urn, 2) ELSE api_version
    /\ lastOp' = [Op("find", urn, <<>>, "done") EXCEPT !.ret = instance'[urn]]
    /\ UNCHANGED <<aggregate, vlan_xlate, import_vlans, import_vlans_from, cycleError,
                   originalRSpec, documentBound, hopFields, pc, textBound, task, gotManifest>>

\* The calls of the engine on an aggregate of the registry.
Engine(x) == Running(x) /\ (allocate(x) \/ reserveReturns(x))

NextFind == \E x \in Aggs : find(x) \/ Engine(x)

\* Tried on the document with two AMs, in a build where the error branch of
\* allocate raises.
InitFind == InitTwoAMs /\ ~textBound

SpecFind == InitFind /\ [][NextFind]_vars

-----------------------------------------------------------------------------
(* The scheduling loop with AMs that behave: the engine dispatches         *)
(* allocate on aggregates that are ready, and every reserve is answered    *)
(* with a valid manifest that honours the request.                         *)

\* The request's VLANs admit the manifest's: a request field that is empty
\* admits anything.
Admits(req, S) == req.s = {} \/ S \subseteq req.s

\* Manifest m is valid and honours the request sent to the AM of x: each
\* hop gets a single VLAN of its range, both within what was asked for.
Honours(x, m) ==
    \A h \in HopsOf(x) :
        LET e == m.hops[h]
            q == requestDom[x].hops[h]
        IN  /\ e.sug.k = "text" /\ e.rng.k = "text"
            /\ Cardinality(e.sug.s) = 1
            /\ e.sug.s \subseteq e.rng.s
            /\ Admits(q.sug, e.sug.s)
            /\ Admits(q.rng, e.rng.s)

\* The scheduler picks a ready aggregate and calls allocate on it.
Dispatch(x) == ready(x) /\ allocate(x)

\* The AM answers the reserve with such a manifest.
HonouredReply(x) == ReserveSucceeds(x) /\ Honours(x, manifestDom'[x])

NextFair == \E x \in Aggs : Dispatch(x) \/ HonouredReply(x)

\* The scheduler keeps dispatching and the AMs keep answering.
\* The run starts from a document whose dependencies have no cycle.
InitFair == Init /\ CycleMembers(dependsOn) = {}

SpecFair == InitFair /\ [][NextFair]_vars /\ WF_vars(NextFair)

-----------------------------------------------------------------------------
(* Properties of the stitching engine.                                     *)

\* The step is a call of allocate on x / of deleteReservation on x / the
\* return of the reserve call of x.
AllocateCalled(x) == lastOp'.op = "allocate" /\ lastOp'.agg = x

DeleteCalled(x) == lastOp'.op = "deleteReservation" /\ lastOp'.agg = x

\* The step in which allocate(x) sends its reserve call.
ReserveIssued(x) == pc[x] = "idle" /\ pc'[x] = "reserving"

\* C1: allocate(x) sets inProcess and issues its reserve call only if every
\* aggregate of x.dependsOn is completed when allocate is entered; with a
\* dependency not completed it returns without any call to an AM and
\* without changing any aggregate flag or hop field.
C1_AllocateWaitsForDependencies ==
    [][\A x \in Aggs :
        /\ ReserveIssued(x) => dependencies_complete(x)
        /\ (inProcess'[x] /\ ~inProcess[x]) => dependencies_complete(x)
        /\ (AllocateCalled(x) /\ ~dependencies_complete(x))
              => /\ lastOp'.rpcs = <<>>
                 /\ lastOp'.result = "early"
                 /\ UNCHANGED progVars]_vars

\* allocate was called on an aggregate that is neither busy nor completed
\* and has a dependency that is not completed, and returned at the guard.
C1_Witness ==
    \E x \in aggs :
        /\ lastOp = Op("allocate", x, <<>>, "early")
        /\ ~inProcess[x] /\ ~completed[x]
        /\ ~dependencies_complete(x)

\* C7: re-entry is idempotent.  When every aggregate is completed none is
\* ready, and allocate called on an aggregate that is completed or in
\* process issues no reserve and no delete and changes no aggregate flag,
\* manifestDom, requestDom or hop VLAN field.
C7_ReentryIsNoop ==
    [][/\ (\A x \in aggs : completed[x]) => (\A x \in aggs : ~ready(x))
       /\ \A x \in Aggs :
            (AllocateCalled(x) /\ (completed[x] \/ inProcess[x]))
               => /\ lastOp'.rpcs = <<>>
                  /\ lastOp'.result = "early"
                  /\ UNCHANGED progVars]_vars

\* Every aggregate is completed and holds a manifest, and allocate has just
\* been called again on one of them and returned at the guard.
C7_Witness ==
    /\ \A x \in aggs : completed[x] /\ ~inProcess[x] /\ manifestDom[x].present
    /\ lastOp.op = "allocate" /\ lastOp.result = "early" /\ lastOp.rpcs = <<>>
    /\ lastOp.agg \in aggs

\* allocate was called on an aggregate whose earlier call still waits for
\* the AM, and returned at the guard.
C7_WitnessInProcess ==
    /\ lastOp.op = "allocate" /\ lastOp.result = "early"
    /\ inProcess[lastOp.agg] /\ pc[lastOp.agg] = "reserving"

\* C10: VLAN propagation.  When allocate(x) issues its reserve call, every
\* importing hop h of x whose upstream hop u = h.import_vlans_from has a
\* suggested manifest VLAN asks for exactly that VLAN, on the hop link and
\* in the request document sent.
C10_SuggestedRequestFollowsUpstream ==
    [][\A x \in Aggs : ReserveIssued(x) =>
         \A h \in HopsOf(x) :
            (import_vlans[h] /\ import_vlans_from[h] # 0 /\
             Truthy(vlan_suggested_manifest'[import_vlans_from[h]]))
               => /\ vlan_suggested_request'[h] =
                        vlan_suggested_manifest'[import_vlans_from[h]]
                  /\ requestDom'[x].hops[h].sug =
                        str(vlan_suggested_manifest'[import_vlans_from[h]])]_vars

\* A reserve call is out for an aggregate with an importing hop that was
\* parsed asking for "any" and now asks for the single VLAN its upstream hop
\* was given.
C10_Witness ==
    \E x \in aggs : \E h \in HopsOf(x) :
        /\ pc[x] = "reserving" /\ lastOp.op = "allocate" /\ lastOp.agg = x
        /\ import_vlans[h] /\ import_vlans_from[h] # 0
        /\ Truthy(vlan_suggested_manifest[import_vlans_from[h]])
        /\ Cardinality(vlan_suggested_manifest[import_vlans_from[h]].s) = 1
        /\ vlan_suggested_request[h] = vlan_suggested_manifest[import_vlans_from[h]]
        /\ requestDom[x].hops[h].sug = str(vlan_suggested_request[h])

C3_CompletedHopsHoldOneVlan ==
    (\A x \in aggs : pc[x] = "idle") =>
        \A x \in aggs : completed[x] =>
            \A h \in HopsOf(x) :
                /\ vlan_suggested_manifest[h].k = "VLANRange"
                /\ Cardinality(vlan_suggested_manifest[h].s) = 1
                /\ IsSubsetOf(vlan_suggested_manifest[h], vlan_range_manifest[h])

\* C4: when every aggregate is completed, for every adjacent hop pair (a, b)
\* of the path with b importing VLANs and a not translating, the suggested
\* manifest VLANs of a and b are equal, whatever the AMs answered.
C4_ImportedVlanIsContinuous ==
    (\A x \in aggs : completed[x] /\ pc[x] = "idle") =>
        \A p \in AdjacentPairs :
            (import_vlans[p[2]] /\ ~vlan_xlate[p[1]])
               => vlan_suggested_manifest[p[1]] = vlan_suggested_manifest[p[2]]

\* C5: for every hop of a completed aggregate, the suggested manifest VLAN
\* lies in the manifest range and the manifest range lies in the hop's
\* range request, whatever the AM answered.
C5_ManifestWithinRequest ==
    \A h \in HopIds : completed[aggregate[h]] =>
        /\ IsSubsetOf(vlan_suggested_manifest[h], vlan_range_manifest[h])
        /\ IsSubsetOf(vlan_range_manifest[h], vlan_range_request[h])

\* C6: in every reachable state, for every hop whose suggested request and
\* range request are both set, the suggested request lies in the range
\* request: also for a hop parsed with suggested "any" and a narrower
\* range, and after a copyVLANsAndDetectRedo that ended in an error.
C6_SuggestedRequestWithinRange ==
    \A h \in HopIds :
        (vlan_suggested_request[h].k = "VLANRange" /\ vlan_range_request[h].k = "VLANRange")
           => IsSubsetOf(vlan_suggested_request[h], vlan_range_request[h])

\* C8: ripple-down invalidation.  When deleteReservation(x) runs on a
\* completed x, right afterwards every aggregate of the transitive closure
\* of x.isDependencyFor, not only the direct dependents, is not completed.
C8_DeleteInvalidatesTransitively ==
    [][\A x \in Aggs :
        (DeleteCalled(x) /\ completed[x])
           => \A y \in Closure(isDependencyFor, x) : ~completed'[y]]_vars

\* The case of C9: b's hop h imports from hop u of a completed aggregate;
\* b was given the VLAN it asked for on h and still holds that manifest, is
\* no longer completed, and u has since been given a different VLAN.
UpstreamRedone(b, h) ==
    LET u == import_vlans_from[h] IN
    /\ h \in HopsOf(b) /\ import_vlans[h] /\ u # 0
    /\ completed[aggregate[u]] /\ dependencies_complete(b)
    /\ ~completed[b] /\ ~inProcess[b] /\ pc[b] = "idle"
    /\ manifestDom[b].present
    /\ Truthy(vlan_suggested_manifest[h])
    /\ vlan_suggested_request[h] = vlan_suggested_manifest[h]
    /\ Truthy(vlan_suggested_manifest[u])
    /\ vlan_suggested_manifest[u] # vlan_suggested_manifest[h]

\* C9 as stated: upstream redo cascades.  a and b (b importing from a) both
\* completed with suggested VLAN v; a was deleted and redone and now holds
\* v' # v: the next allocate(b) issues a delete at b and then a reserve at b
\* whose request carries v'.
C9_UpstreamRedoCascades ==
    [][\A b \in Aggs : \A h \in HopIds :
        (UpstreamRedone(b, h) /\ AllocateCalled(b))
           => /\ lastOp'.rpcs = <<"delete", "reserve">>
              /\ requestDom'[b].hops[h].sug =
                    str(vlan_suggested_manifest[import_vlans_from[h]])]_vars

\* C9, amended: in that case the next allocate(b) never keeps the old
\* reservation and never reserves before deleting.  Either it raises with
\* no call made, because v' is outside the range computed for an importing
\* hop of b; or it issues a delete at b and raises because that delete
\* failed; or it issues the delete and then a reserve whose request carries
\* v', the old manifest of b cleared from the aggregate and its hops.
C9_UpstreamRedoDeletesFirst ==
    [][\A b \in Aggs : \A h \in HopIds :
        (UpstreamRedone(b, h) /\ AllocateCalled(b))
           => \/ /\ lastOp'.result = "raised" /\ lastOp'.rpcs = <<>>
                 /\ \E g \in HopsOf(b) :
                       /\ import_vlans[g] /\ import_vlans_from[g] # 0
                       /\ ~IsSubsetOf(vlan_suggested_manifest[import_vlans_from[g]],
                                      NewAvail(CopyStart(b), g))
                 /\ UNCHANGED <<vlan_suggested_manifest, vlan_range_manifest, aggFields>>
              \/ /\ lastOp'.result = "raised" /\ lastOp'.rpcs = <<"delete">>
                 /\ ~completed'[b] /\ manifestDom'[b] = NoDoc
              \/ /\ lastOp'.result = "calling" /\ lastOp'.rpcs = <<"delete", "reserve">>
                 /\ vlan_suggested_request'[h] = vlan_suggested_manifest[import_vlans_from[h]]
                 /\ requestDom'[b].hops[h].sug =
                       str(vlan_suggested_manifest[import_vlans_from[h]])
                 /\ manifestDom'[b] = NoDoc
                 /\ \A g \in HopsOf(b) : /\ vlan_suggested_manifest'[g] = NoneV
                                         /\ vlan_range_manifest'[g] = NoneV
                 /\ ~completed'[b] /\ inProcess'[b]]_vars

\* allocate(b) has deleted and is reserving again, asking on its importing
\* hop for the VLAN the upstream hop now holds.  The hop's range request is
\* still the full range, hence unchanged by this call: the redo was asked
\* for by the change of the suggested VLAN alone.
C9_Witness ==
    \E b \in aggs : \E h \in HopsOf(b) :
        /\ lastOp = Op("allocate", b, <<"delete", "reserve">>, "calling")
        /\ import_vlans[h] /\ import_vlans_from[h] # 0
        /\ completed[aggregate[import_vlans_from[h]]]
        /\ Cardinality(vlan_suggested_manifest[import_vlans_from[h]].s) = 1
        /\ vlan_suggested_request[h] = vlan_suggested_manifest[import_vlans_from[h]]
        /\ requestDom[b].hops[h].sug = str(vlan_suggested_request[h])
        /\ vlan_range_request[h] = AnyRange
        /\ manifestDom[b] = NoDoc

\* The step is the return of x's reserve call with a manifest, which
\* allocate has saved as manifestDom.
ManifestReturned(x) ==
    /\ pc[x] = "reserving"
    /\ lastOp'.op = "reply" /\ lastOp'.agg = x /\ lastOp'.answer = "manifest"

\* A manifest entry of a hop that the specification calls invalid: the
\* suggested text missing, 'null' or not a single VLAN, or the range text
\* missing or empty.
InvalidEntry(e) ==
    \/ e.sug.k # "text" \/ Cardinality(e.sug.s) # 1
    \/ e.rng.k # "text" \/ e.rng.s = {}

\* C11: when the manifest returned for a reserve has, for some hop of the
\* aggregate, a suggestedVLANRange that is missing, 'null', 'None', 'any'
\* or not a single VLAN, or a missing or empty vlanRangeAvailability,
\* allocate fails with an error and the aggregate does not end completed.
C11_InvalidManifestFails ==
    [][\A x \in Aggs :
        (ManifestReturned(x) /\
         \E h \in HopsOf(x) : InvalidEntry(manifestDom'[x].hops[h]))
           => /\ lastOp'.result = "raised"
              /\ ~completed'[x]]_vars

\* C12: when the manifest's suggested VLAN for a hop of the aggregate is
\* not a subset of the hop's vlan_suggested_request, allocate fails: the
\* VLAN is not stored as the hop's vlan_suggested_manifest and the
\* aggregate is not marked completed.
C12_VlanMismatchFails ==
    [][\A x \in Aggs : ManifestReturned(x) =>
         \A h \in HopsOf(x) :
            LET e == manifestDom'[x].hops[h] IN
            (e.sug.k = "text" /\ ~IsSubsetOf(VR(e.sug.s), vlan_suggested_request[h]))
               => /\ lastOp'.result = "raised"
                  /\ vlan_suggested_manifest'[h] # VR(e.sug.s)
                  /\ ~completed'[x]]_vars

\* The step is the return of x's reserve call with an error struct of the
\* given code.
ErrorAnswered(x, code) ==
    /\ pc[x] = "reserving"
    /\ lastOp'.op = "reply" /\ lastOp'.agg = x /\ lastOp'.answer = code

\* C13: busy retry.  When the AM answers the reserve with BUSY, the same
\* allocate issues the reserve again (up to a bound): the call has not
\* ended, a reserve is out again, and the aggregate is completed only by
\* the later successful answer.
C13_BusyIsRetried ==
    [][\A x \in Aggs :
        ErrorAnswered(x, "BUSY")
           => /\ pc'[x] = "reserving"
              /\ lastOp'.result # "raised"
              /\ ~completed'[x]]_vars

\* C14: when the AM answers the reserve with VLAN_UNAVAILABLE for a tag of
\* hop h, then after allocate returns h.vlans_unavailable holds that tag
\* and the aggregate is not marked completed.
C14_VlanUnavailableIsRecorded ==
    [][\A x \in Aggs :
        ErrorAnswered(x, "VLAN_UNAVAILABLE")
           => /\ \E h \in HopsOf(x) :
                    /\ vlans_unavailable[h].s \subseteq vlans_unavailable'[h].s
                    /\ vlans_unavailable'[h].s # vlans_unavailable[h].s
              /\ ~completed'[x]]_vars

\* C15: for an aggregate with dcn set, the step in which the reserve
\* returns a manifest does not mark the aggregate completed and does not
\* record the manifest VLANs on its hops: that waits for a sliver-status
\* poll to report ready (and allocate makes no such call).
C15_DcnWaitsForSliverStatus ==
    [][\A x \in Aggs :
        (dcn[x] /\ ManifestReturned(x))
           => /\ ~completed'[x]
              /\ \A h \in HopsOf(x) :
                    /\ vlan_suggested_manifest'[h] = vlan_suggested_manifest[h]
                    /\ vlan_range_manifest'[h] = vlan_range_manifest[h]]_vars

\* C16: a failed allocate commits no partial state.  When allocate fails
\* after setting inProcess (the call to the AM fails, the manifest does not
\* parse, or a hop of the manifest fails validation), the aggregate is left
\* with inProcess set, not completed and without manifestDom, and none of
\* its hops has a manifest field written by that attempt.
C16_FailedAllocateCommitsNothing ==
    [][\A x \in Aggs :
        (pc[x] = "reserving" /\ lastOp'.op = "reply" /\ lastOp'.agg = x /\
         lastOp'.result = "raised")
           => /\ inProcess'[x] /\ ~completed'[x]
              /\ ~manifestDom'[x].present
              /\ \A h \in HopsOf(x) :
                    /\ vlan_suggested_manifest'[h] = vlan_suggested_manifest[h]
                    /\ vlan_range_manifest'[h] = vlan_range_manifest[h]]_vars

\* C17: an aggregate that an aborted allocate left with inProcess set and
\* not completed counts as pending in a later scheduling pass: once its
\* dependencies are completed it is ready, and allocate called on it again
\* issues its reserve.
C17_AbortedAllocateIsPending ==
    [][\A x \in Aggs :
        (x \in aggs /\ pc[x] = "idle" /\ inProcess[x] /\ ~completed[x] /\
         dependencies_complete(x))
           => /\ ready(x)
              /\ AllocateCalled(x) => pc'[x] = "reserving"]_vars

\* C18: under any interleaving of allocate tasks, two tasks of the same
\* aggregate included, the guard and the setting of inProcess act as one
\* step: at most one reserve call is in flight for an aggregate at a time.
C18_OneReserveInFlight ==
    \A x \in Aggs : Cardinality({t \in Tasks : task[x][t] = "reserving"}) <= 1

\* C19: termination.  With an acyclic dependsOn, AMs that answer every
\* reserve with a valid manifest honouring the request, and a scheduler
\* that keeps dispatching allocate on ready aggregates, the run reaches a
\* state, and stays in it, where every aggregate is completed and none is
\* ready or in process.
C19_RunTerminates ==
    <>[](\A x \in aggs : completed[x] /\ ~inProcess[x] /\ ~ready(x))

\* The chain of three aggregates is completed, each on a manifest, the
\* last one to answer being the end of the chain.
C19_Witness ==
    /\ Cardinality(aggs) = 3
    /\ \A x \in aggs : completed[x] /\ ~inProcess[x] /\ manifestDom[x].present
    /\ lastOp = Reply("C", "manifest", "done")

Canonical(e) == IF e.k = "any" THEN Text(VLANS) ELSE e

\* Two links hold the same vlanRangeAvailability and suggestedVLANRange.
SameLink(a, b) ==
    /\ Canonical(a.sug) = Canonical(b.sug)
    /\ Canonical(a.rng) = Canonical(b.rng)
    /\ Canonical(a.rngExtra) = Canonical(b.rngExtra)

\* allocate(x) gets to build its request document in this step, the hop
\* links' request fields being what HopLink.fromDOM read from the original
\* document.
BuildsRequestUnchanged(x) ==
    /\ AllocateCalled(x)
    /\ ~inProcess[x] /\ inProcess'[x]
    /\ \A h \in HopIds :
          /\ vlan_suggested_request'[h] = fromDOM(originalRSpec[h]).sug
          /\ vlan_range_request'[h] = fromDOM(originalRSpec[h]).rng

\* C21: round trip.  Building the request document of an aggregate from
\* the original document with the model state as parsed gives a document
\* with the same hops and, for every hop, the same vlanRangeAvailability
\* and suggestedVLANRange under canonical serialization, also for a hop
\* whose original link lacked one of these elements.
C21_RequestRoundTrips ==
    [][\A x \in Aggs :
        BuildsRequestUnchanged(x)
           => /\ lastOp'.result = "calling"
              /\ requestDom'[x].present
              /\ DOMAIN requestDom'[x].hops = HopIds
              /\ \A h \in HopIds : SameLink(requestDom'[x].hops[h], originalRSpec[h])]_vars

\* The same for documents whose links all have both elements (used to see
\* what part of C21 the code delivers).
RoundTripOfCompleteLinks ==
    [][\A x \in Aggs :
        (BuildsRequestUnchanged(x) /\
         \A h \in HopIds : Missing \notin {originalRSpec[h].sug, originalRSpec[h].rng})
           => /\ lastOp'.result = "calling"
              /\ requestDom'[x].present
              /\ DOMAIN requestDom'[x].hops = HopIds
              /\ \A h \in HopIds : SameLink(requestDom'[x].hops[h], originalRSpec[h])]_vars

\* C22: the omni command of each AM call.  For an aggregate with
\* api_version 2 the reserve is createsliver and the delete is deletesliver;
\* with api_version 3 or higher the reserve is allocate and the delete is
\* delete.
C22_VerbFollowsApiVersion ==
    [][\A i \in DOMAIN lastOp'.rpcs :
        LET x == lastOp'.agg
            v3 == api_version[x] >= 3
        IN  /\ lastOp'.rpcs[i] = "reserve"
                 => lastOp'.verbs[i] = (IF v3 THEN "allocate" ELSE "createsliver")
            /\ lastOp'.rpcs[i] = "delete"
                 => lastOp'.verbs[i] = (IF v3 THEN "delete" ELSE "deletesliver")]_vars

\* The reserve half of C22 alone.
ReserveVerbFollowsApiVersion ==
    [][\A i \in DOMAIN lastOp'.rpcs :
        lastOp'.rpcs[i] = "reserve"
           => lastOp'.verbs[i] =
                 (IF api_version[lastOp'.agg] >= 3 THEN "allocate" ELSE "createsliver")]_vars

\* The registry holds one Aggregate object per URN asked for, each URN its
\* own, and no other object was ever made.
OneInstancePerUrn ==
    /\ \A u \in Aggs : (u \in aggs) <=> (instance[u] # 0)
    /\ \A u, v \in aggs : instance[u] = instance[v] => u = v
    /\ created = Cardinality(aggs)

\* C23: interning.  After any sequence of Aggregate.find calls the registry
\* holds exactly one Aggregate per URN ever requested; find(u) returns that
\* same object every time, so the flags set through one reference are there
\* through every other; and no entry is ever removed or replaced.
C23_FindInterns ==
    [][/\ OneInstancePerUrn /\ OneInstancePerUrn'
       /\ \A u \in Aggs : instance[u] # 0 => instance'[u] = instance[u]
       /\ aggs \subseteq aggs'
       /\ lastOp'.op = "find"
             => /\ lastOp'.agg \in aggs'
                /\ lastOp'.ret = instance'[lastOp'.agg]
                /\ lastOp'.agg \in aggs
                      => /\ lastOp'.ret = instance[lastOp'.agg]
                         /\ UNCHANGED <<aggFields, hopFields, dependsOn, isDependencyFor>>]_vars

\* find has made the aggregate C, which the document does not place on the
\* path, and has since been asked again for A, now completed: it returned
\* the object A got when the document was parsed.
C23_Witness ==
    /\ aggs = {"A", "B", "C"} /\ created = 3 /\ instance["C"] = 3
    /\ lastOp.op = "find" /\ lastOp.agg = "A" /\ lastOp.ret = 1
    /\ completed["A"] /\ manifestDom["A"].present

\* The step is a call of allocate(x) in which copyVLANsAndDetectRedo
\* returned: allocate went on to return, to delete, or to mark the AM busy.
NegotiationReturned(x) ==
    /\ AllocateCalled(x)
    /\ lastOp'.result # "early"
    /\ lastOp'.result = "raised" => (lastOp'.rpcs # <<>> \/ inProcess'[x])

\* The tags of an operand of the range computation, an absent or empty one
\* counting as every tag.
OperandTags(v) == IF v.s = {} THEN VLANS ELSE v.s

\* C24: after copyVLANsAndDetectRedo succeeds, every importing hop h with
\* upstream hop u asks for the range (u.vlan_range_manifest & h's
\* vlan_range_request as it was before the call) - h.vlans_unavailable, an
\* absent or empty operand counting as the full range; and so a non-empty
\* vlan_range_request never grows, whatever the step.
C24_RangeRequestIsIntersection ==
    [][/\ \A x \in Aggs : NegotiationReturned(x) =>
            \A h \in HopsOf(x) :
               (import_vlans[h] /\ import_vlans_from[h] # 0)
                  => /\ vlan_range_request'[h].k = "VLANRange"
                     /\ vlan_range_request'[h].s =
                           (OperandTags(vlan_range_manifest[import_vlans_from[h]])
                              \cap OperandTags(vlan_range_request[h]))
                           \ vlans_unavailable[h].s
       /\ \A h \in HopIds :
            vlan_range_request[h].s # {}
               => vlan_range_request'[h].s \subseteq vlan_range_request[h].s]_vars

\* allocate has been called again on an aggregate whose importing hop had
\* narrowed its range to one tag at the first allocate; the upstream hop
\* has since been given the full range, and the hop still asks for the one
\* tag (the intersection, not the upstream range), its old reservation
\* standing.
C24_Witness ==
    \E x \in aggs : \E h \in HopsOf(x) :
        /\ lastOp = Op("allocate", x, <<>>, "done")
        /\ import_vlans[h] /\ import_vlans_from[h] # 0
        /\ vlan_range_manifest[import_vlans_from[h]] = AnyRange
        /\ Cardinality(vlan_range_request[h].s) = 1
        /\ originalRSpec[h].rng = AnyText

\* Negotiation on x, started in this state, returns alreadyDone (and not
\* mustDelete), in whatever order it visits the hops.
ReturnsAlreadyDone(x) ==
    \A order \in Orders(HopsOf(x)) :
        LET r == copyVLANsAndDetectRedo(x, order)
        IN  ~r.raised /\ r.alreadyDone /\ ~r.mustDelete

\* C25: when allocate is called on an aggregate that is not completed, has
\* a manifestDom, and for which negotiation returns alreadyDone, allocate
\* marks it completed and returns: no delete and no reserve is issued,
\* inProcess is not set, and manifestDom and the manifest fields of every
\* hop are as before.
C25_AlreadyDoneOnlyCompletes ==
    [][\A x \in Aggs :
        (AllocateCalled(x) /\ ~AllocateReturnsEarly(x) /\ pc[x] = "idle" /\
         manifestDom[x].present /\ ReturnsAlreadyDone(x))
           => /\ lastOp' = Op("allocate", x, <<>>, "done")
              /\ completed' = [completed EXCEPT ![x] = TRUE]
              /\ ~inProcess'[x] /\ pc'[x] = "idle"
              /\ UNCHANGED <<manifestDom, requestDom, inProcess, gotManifest,
                             vlan_suggested_manifest, vlan_range_manifest>>]_vars

\* An aggregate with an importing hop, its upstream deleted and reserved
\* again with the same VLAN, has been marked completed by allocate on the
\* manifest it already had.
C25_Witness ==
    \E x \in aggs : \E h \in HopsOf(x) :
        /\ lastOp = Op("allocate", x, <<>>, "done")
        /\ completed[x] /\ ~inProcess[x] /\ manifestDom[x].present
        /\ import_vlans[h] /\ import_vlans_from[h] # 0
        /\ completed[aggregate[import_vlans_from[h]]]
        /\ vlan_suggested_manifest[h] = vlan_suggested_manifest[import_vlans_from[h]]
        /\ Cardinality(vlan_suggested_manifest[h].s) = 1

\* A task of x leaves allocate by the alreadyDone return: it was past the
\* guards, it is out again, and completed has become true without a call.
TaskReturnsAlreadyDone(x) ==
    /\ \E t \in Tasks : task[x][t] = "entered" /\ task'[x][t] = "out"
    /\ ~completed[x] /\ completed'[x]

\* C26: negotiation answers alreadyDone only if the aggregate had a manifest
\* when it was entered and every hop the aggregate owns -- one that imports
\* from no hop included -- already has a suggested VLAN in its manifest.
C26_AlreadyDoneNeedsEveryHop ==
    [][\A x \in aggs :
          TaskReturnsAlreadyDone(x) =>
              /\ manifestDom[x].present
              /\ \A h \in HopsOf(x) : Truthy(vlan_suggested_manifest[h])]_vars

\* The hops of x that negotiation computes a request for.
ImportingHops(x) == {h \in HopsOf(x) : import_vlans[h] /\ import_vlans_from[h] # 0}

\* The tags of new_suggested for importing hop h, from the state negotiation
\* starts in: the upstream manifest's, else the hop's own request's.
ExpectedSuggested(h) ==
    IF Truthy(vlan_suggested_manifest[import_vlans_from[h]])
    THEN vlan_suggested_manifest[import_vlans_from[h]].s
    ELSE OperandTags(vlan_suggested_request[h])

\* The tags of new_avail for importing hop h, likewise.
ExpectedAvail(h) ==
    (OperandTags(vlan_range_manifest[import_vlans_from[h]])
        \cap OperandTags(vlan_range_request[h])) \ vlans_unavailable[h].s

\* C27: when every importing hop of an aggregate with a manifest has a
\* suggested manifest VLAN equal to the new_suggested computed for it,
\* allocate deletes nothing, whatever changed in the hop's suggested request
\* or available range: the requests take the new values and the hops'
\* manifest fields stay.
C27_SameManifestIsKept ==
    [][\A x \in Aggs :
        (/\ NegotiationReturned(x)
         /\ manifestDom[x].present
         /\ ImportingHops(x) # {}
         /\ \A h \in ImportingHops(x) :
               /\ Truthy(vlan_suggested_manifest[h])
               /\ vlan_suggested_manifest[h].s = ExpectedSuggested(h))
           => /\ \A i \in DOMAIN lastOp'.rpcs : lastOp'.rpcs[i] # "delete"
              /\ \A h \in HopsOf(x) :
                    /\ vlan_suggested_manifest'[h] = vlan_suggested_manifest[h]
                    /\ vlan_range_manifest'[h] = vlan_range_manifest[h]
              /\ \A h \in ImportingHops(x) :
                    /\ vlan_suggested_request'[h].s = ExpectedSuggested(h)
                    /\ vlan_range_request'[h].s = ExpectedAvail(h)]_vars

NegotiationFails(h) ==
    \/ ExpectedSuggested(h) \subseteq vlans_unavailable[h].s
    \/ ExpectedAvail(h) = {}
    \/ ~(ExpectedSuggested(h) \subseteq ExpectedAvail(h))

\* C29: when negotiation fails for an importing hop of the aggregate,
\* allocate ends with an error: it issues neither a delete nor a reserve,
\* the aggregate is neither completed nor inProcess afterwards, and its
\* manifestDom and the hops' manifest fields are as before.
C29_NegotiationFailureStopsAllocate ==
    [][\A x \in Aggs :
        (/\ AllocateCalled(x) /\ ~AllocateReturnsEarly(x) /\ pc[x] = "idle"
         /\ \E h \in ImportingHops(x) : NegotiationFails(h))
           => /\ lastOp' = Op("allocate", x, <<>>, "raised")
              /\ ~completed'[x] /\ ~inProcess'[x] /\ pc'[x] = "idle"
              /\ UNCHANGED <<manifestDom, requestDom, completed, inProcess,
                             vlan_suggested_manifest, vlan_range_manifest>>]_vars

\* allocate has raised on an aggregate whose importing hop is offered, by
\* the upstream manifest, a suggested VLAN outside the range left to the hop.
C29_Witness ==
    \E x \in aggs : \E h \in ImportingHops(x) :
        /\ lastOp = Op("allocate", x, <<>>, "raised")
        /\ ~inProcess[x] /\ ~completed[x]
        /\ completed[aggregate[import_vlans_from[h]]]
        /\ Truthy(vlan_suggested_manifest[import_vlans_from[h]])
        /\ NegotiationFails(h)

\* C30: no step changes vlan_suggested_request or vlan_range_request of a hop
\* with import_vlans false; and when an aggregate none of whose hops imports
\* sends its reserve, the request document gives, for each of its hops, the
\* values read from the original document.
C30_NonImportingRequestUntouched ==
    [][/\ \A h \in HopIds :
             ~import_vlans[h] =>
                 /\ vlan_suggested_request'[h] = vlan_suggested_request[h]
                 /\ vlan_range_request'[h] = vlan_range_request[h]
       /\ \A x \in Aggs :
             (ReserveIssued(x) /\ \A h \in HopsOf(x) : ~import_vlans[h])
                => \A h \in HopsOf(x) :
                      fromDOM(requestDom'[x].hops[h]) = fromDOM(originalRSpec[h])]_vars

\* An aggregate behind a translating hop has sent its reserve: the hop
\* before its own has a manifest VLAN, none of its hops imports, and its
\* hop still asks for "any".
C30_Witness ==
    \E x \in aggs : \E h \in HopsOf(x) :
        /\ lastOp = Op("allocate", x, <<"reserve">>, "calling")
        /\ requestDom[x].present
        /\ \A g \in HopsOf(x) : ~import_vlans[g]
        /\ h > 1 /\ aggregate[h - 1] # x /\ vlan_xlate[h - 1]
        /\ Cardinality(vlan_suggested_manifest[h - 1].s) = 1
        /\ vlan_suggested_request[h] = AnyRange
        /\ fromDOM(requestDom[x].hops[h]) = fromDOM(originalRSpec[h])

\* C31: the request document built for an aggregate differs from the
\* original document only at the hops the aggregate owns: for a hop of
\* another aggregate it gives the vlanRangeAvailability and
\* suggestedVLANRange values of the original document; and the original
\* document is never changed.
C31_OnlyOwnHopsEdited ==
    [][/\ \A x \in Aggs :
             ReserveIssued(x) =>
                 \A h \in HopIds \ HopsOf(x) :
                     fromDOM(requestDom'[x].hops[h]) = fromDOM(originalRSpec[h])
       /\ originalRSpec' = originalRSpec]_vars

\* C32: deleteReservation(x) makes x not completed, clears x's manifestDom
\* and the manifest fields of x's hops, and leaves as they were: x's
\* inProcess, the request fields and vlans_unavailable of every hop, every
\* aggregate's dependsOn and isDependencyFor, and the manifestDom and hop
\* manifest fields of every other aggregate.
C32_DeleteReservationFrame ==
    [][\A x \in Aggs :
        DeleteCalled(x) =>
            /\ ~completed'[x]
            /\ ~manifestDom'[x].present
            /\ \A h \in HopsOf(x) :
                  /\ vlan_suggested_manifest'[h] = NoneV
                  /\ vlan_range_manifest'[h] = NoneV
            /\ inProcess'[x] = inProcess[x]
            /\ UNCHANGED <<vlan_suggested_request, vlan_range_request, vlans_unavailable,
                           dependsOn, isDependencyFor>>
            /\ \A y \in Aggs \ {x} : manifestDom'[y] = manifestDom[y]
            /\ \A h \in HopIds \ HopsOf(x) :
                  /\ vlan_suggested_manifest'[h] = vlan_suggested_manifest[h]
                  /\ vlan_range_manifest'[h] = vlan_range_manifest[h]]_vars

\* deleteReservation has been called on an aggregate that is inProcess (its
\* last allocate raised after the reserve) and whose hop asks for one VLAN,
\* while another aggregate holds a manifest: the first has lost its
\* manifest, the second has kept it.
C32_Witness ==
    \E x \in aggs : \E y \in aggs \ {x} :
        /\ lastOp.op = "deleteReservation" /\ lastOp.agg = x
        /\ inProcess[x] /\ ~completed[x] /\ ~manifestDom[x].present
        /\ \A h \in HopsOf(x) : vlan_suggested_manifest[h] = NoneV
        /\ \E h \in HopsOf(x) : Cardinality(vlan_suggested_request[h].s) = 1
        /\ manifestDom[y].present
        /\ \E h \in HopsOf(y) : Truthy(vlan_suggested_manifest[h])

\* The step belongs to allocate(x): the call up to its reserve, or the
\* return of its reserve call with the recording of the manifest.
AllocateStep(x) == AllocateCalled(x) \/ (lastOp'.op = "reply" /\ lastOp'.agg = x)

\* C33: exclusive write access.  No step of allocate(x) -- negotiation,
\* delete, recording of the manifest -- changes a request field, a manifest
\* field or vlans_unavailable of a hop of another aggregate; and the hops of
\* other aggregates whose manifest fields negotiation reads (the
\* import_vlans_from of x's importing hops) belong to aggregates of
\* x.dependsOn that are completed when allocate is entered.
C33_ExclusiveWriteAccess ==
    [][\A x \in Aggs :
        /\ AllocateStep(x) =>
              \A h \in HopIds \ HopsOf(x) :
                  /\ vlan_suggested_request'[h] = vlan_suggested_request[h]
                  /\ vlan_range_request'[h] = vlan_range_request[h]
                  /\ vlan_suggested_manifest'[h] = vlan_suggested_manifest[h]
                  /\ vlan_range_manifest'[h] = vlan_range_manifest[h]
                  /\ vlans_unavailable'[h] = vlans_unavailable[h]
        /\ (AllocateCalled(x) /\ lastOp'.result # "early") =>
              \A h \in ImportingHops(x) :
                  /\ aggregate[import_vlans_from[h]] \in dependsOn[x]
                  /\ completed[aggregate[import_vlans_from[h]]]]_vars

\* allocate has deleted and asked again for an aggregate with an importing
\* hop: the hop asks for the VLAN of the upstream manifest, the aggregate's
\* own manifest fields are cleared, and the upstream aggregate, completed,
\* still has its manifest.
C33_Witness ==
    \E x \in aggs : \E h \in ImportingHops(x) :
        /\ lastOp = Op("allocate", x, <<"delete", "reserve">>, "calling")
        /\ aggregate[import_vlans_from[h]] \in dependsOn[x]
        /\ completed[aggregate[import_vlans_from[h]]]
        /\ manifestDom[aggregate[import_vlans_from[h]]].present
        /\ Cardinality(vlan_suggested_manifest[import_vlans_from[h]].s) = 1
        /\ vlan_suggested_request[h] = vlan_suggested_manifest[import_vlans_from[h]]
        /\ vlan_suggested_manifest[h] = NoneV

\* No aggregate is inProcess and completed at once.
NeverBusyAndCompleted == \A x \in Aggs : ~(inProcess[x] /\ completed[x])

\* C34: the lifecycle of an aggregate, its allocate calls coming one after
\* the other: it is never inProcess and completed at once, and completed
\* goes from false to true only at the end of its allocate -- the return of
\* the reserve call or the alreadyDone return -- and never in a
\* deleteReservation.
C34_Lifecycle ==
    [][/\ NeverBusyAndCompleted /\ NeverBusyAndCompleted'
       /\ \A x \in Aggs :
             (~completed[x] /\ completed'[x]) =>
                 /\ lastOp'.agg = x
                 /\ \/ lastOp'.op = "reply"
                    \/ lastOp' = Op("allocate", x, <<>>, "done")
       /\ \A x \in Aggs :
             DeleteCalled(x) => \A y \in Aggs : completed'[y] => completed[y]]_vars

\* An aggregate has gone round: deleted after its dependent had a manifest,
\* it has been reserved again and is completed and not inProcess, while
\* the dependent, reset by the delete, waits with its old manifest.
C34_Witness ==
    \E x \in aggs : \E y \in isDependencyFor[x] :
        /\ lastOp.op = "reply" /\ lastOp.agg = x
        /\ completed[x] /\ ~inProcess[x] /\ manifestDom[x].present
        /\ manifestDom[y].present /\ ~completed[y]

\* The step is a deleteReservation on x whose delete call failed, called on
\* its own or from allocate (which then has not got to set inProcess).
DeleteRaised(x) ==
    /\ lastOp'.agg = x
    /\ lastOp'.op \in {"deleteReservation", "allocate"}
    /\ lastOp'.rpcs = <<"delete">>
    /\ lastOp'.result = "raised"
    /\ inProcess'[x] = inProcess[x]

\* C35: deleteReservation clears the local state before it makes the delete
\* call: when the call fails and deleteReservation raises, x is not
\* completed, x's manifestDom and the manifest fields of x's hops are
\* cleared and the aggregates of x.isDependencyFor are not completed, the
\* other flags and manifests being as before -- the state a successful
\* delete leaves.
C35_FailedDeleteHasCleared ==
    [][\A x \in Aggs :
        DeleteRaised(x) =>
            /\ \A y \in Aggs :
                  completed'[y] = IF y = x \/ y \in isDependencyFor[x]
                                  THEN FALSE ELSE completed[y]
            /\ \A y \in Aggs :
                  manifestDom'[y] = IF y = x THEN NoDoc ELSE manifestDom[y]
            /\ \A h \in HopIds :
                  /\ vlan_suggested_manifest'[h] =
                        IF aggregate[h] = x THEN NoneV ELSE vlan_suggested_manifest[h]
                  /\ vlan_range_manifest'[h] =
                        IF aggregate[h] = x THEN NoneV ELSE vlan_range_manifest[h]]_vars

\* A deleteReservation whose delete call failed has raised: the aggregate
\* has lost its manifest and is not completed, and its dependent, which
\* has a manifest from its own finished allocate, is not completed either.
C35_Witness ==
    \E x \in aggs : \E y \in isDependencyFor[x] :
        /\ lastOp = Op("deleteReservation", x, <<"delete">>, "raised")
        /\ ~completed[x] /\ ~manifestDom[x].present
        /\ \A h \in HopsOf(x) : vlan_suggested_manifest[h] = NoneV
        /\ x \in gotManifest
        /\ ~completed[y] /\ ~inProcess[y] /\ manifestDom[y].present

=============================================================================
